---- MODULE Spec2Model ----
(***************************************************************************)
(* Model of mathesar/imports/csv.py (dialect sniffing and validation,      *)
(* pasted-text splitting) and mathesar/utils/models.py (update_sa_table).  *)
(*                                                                         *)
(* Text is a sequence of one-character strings.  A file's content is a     *)
(* sequence of tokens [c, n]: the character c repeated n times, so that a  *)
(* file longer than SAMPLE_SIZE stays a short sequence.                    *)
(***************************************************************************)
EXTENDS Integers, Sequences, FiniteSets, TLC

VARIABLES
    file,            \* content of the opened *sv file (token sequence)
    pos,             \* stream position of the file, in characters
    result,          \* outcome of the call made on the file
    trace,           \* stream/validation operations the call performed, in order
    raw_paste,       \* argument of validate_paste
    paste_result,    \* outcome of validate_paste
    validated_data,  \* keys of the validated_data dict given to update_sa_table
    supported,       \* db.tables.SUPPORTED_TABLE_UPDATE_ARGS
    update_result    \* outcome of update_sa_table

vars == <<file, pos, result, trace, raw_paste, paste_result,
          validated_data, supported, update_result>>

sniffVars  == <<file, pos, result, trace>>
pasteVars  == <<raw_paste, paste_result>>
updateVars == <<validated_data, supported, update_result>>

----------------------------------------------------------------------------
(* Program constants, csv.py lines 12-14 *)

ALLOWED_DELIMITERS == {",", "\t", ":", "|", " "}
SAMPLE_SIZE == 20000
CHECK_ROWS == 10

(* Bounds of the model *)
MaxRows == 11

Min(a, b) == IF a < b THEN a ELSE b

----------------------------------------------------------------------------
(* The file stream *)

Tok(c, n) == [c |-> c, n |-> n]
NL  == Tok("\n", 1)
BAD == Tok("\\0", 1)   \* a character the parser rejects with csv.Error

\* Row shapes the files are built from: one long single-field line, short
\* lines whose width depends on the delimiter, one line the parser rejects.
BadRow == <<Tok("a", 1), Tok(",", 1), BAD>>

RowShapes ==
    { <<Tok("a", SAMPLE_SIZE)>>,
      <<Tok("a", 1), Tok(",", 1), Tok("a", 1)>>,
      <<Tok("a", 1), Tok(",", 1), Tok("a", 1), Tok(",", 1), Tok("a", 1)>>,
      <<Tok("a", 1), Tok("\t", 1), Tok("a", 1)>>,
      BadRow }

RECURSIVE Flatten(_)
Flatten(rows) ==
    IF rows = <<>> THEN <<>>
    ELSE Head(rows) \o <<NL>> \o Flatten(Tail(rows))

\* Files of up to MaxRows lines: every line has shape b, except line k
\* (shape d) and, in some files, a last line the parser rejects.
Files ==
    {<<>>} \cup
    { Flatten([i \in 1..n |-> IF i = k THEN d
                              ELSE IF i = n /\ badEnd THEN BadRow ELSE b]) :
        n \in 1..MaxRows, k \in 1..MaxRows,
        b \in RowShapes, d \in RowShapes, badEnd \in BOOLEAN }

RECURSIVE Size(_)
Size(toks) == IF toks = <<>> THEN 0 ELSE Head(toks).n + Size(Tail(toks))

\* The content from position p on.
RECURSIVE Drop(_, _)
Drop(toks, p) ==
    IF p = 0 \/ toks = <<>> THEN toks
    ELSE IF Head(toks).n <= p THEN Drop(Tail(toks), p - Head(toks).n)
    ELSE <<Tok(Head(toks).c, Head(toks).n - p)>> \o Tail(toks)

\* file.read(size) at position p: the new position.
FileRead(content, p, size) == Min(p + size, Size(content))

\* Mutants: a rewind left out, the stream staying where it is.
NoRewindBeforeCheck(p) == p
NoRewindAfterCheck(p) == p

\* file.seek(0) at line 66, before validation, with the stream at p.
RewindBeforeCheck(p) == 0

\* file.seek(0) at line 68, after a successful validation.
RewindAfterCheck(p) == 0

----------------------------------------------------------------------------
(* Dialects and the row reader (clevercsv) *)

Dialect(d) == [delimiter |-> d, quotechar |-> "\"", escapechar |-> ""]
NoDialect  == [delimiter |-> "None", quotechar |-> "None", escapechar |-> "None"]
Dialects   == { Dialect(d) : d \in ALLOWED_DELIMITERS }

\* Detector().detect(sample, delimiters=ALLOWED_DELIMITERS): a dialect whose
\* delimiter is one of the allowed ones, or None.
DetectorOutcomes == Dialects \cup {NoDialect}

\* Index of the first newline token of toks, 0 when there is none.
RECURSIVE FirstNL(_, _)
FirstNL(toks, i) ==
    IF i > Len(toks) THEN 0
    ELSE IF toks[i].c = "\n" THEN i
    ELSE FirstNL(toks, i + 1)

\* The fields of one line, as the sequence of their lengths.
RECURSIVE Fields(_, _, _, _, _)
Fields(line, i, delim, cur, acc) ==
    IF i > Len(line) THEN Append(acc, cur)
    ELSE IF line[i].c = delim
         THEN Fields(line, i + 1, delim, 0, Append(acc, cur))
         ELSE Fields(line, i + 1, delim, cur + line[i].n, acc)

\* next(row_gen) on the remaining content: StopIteration at the end of the
\* stream, csv.Error on a line the parser rejects, else the row and the rest.
NextRow(toks, dialect) ==
    IF toks = <<>>
    THEN [kind |-> "StopIteration", row |-> <<>>, rest |-> <<>>]
    ELSE LET e    == FirstNL(toks, 1)
             line == IF e = 0 THEN toks ELSE SubSeq(toks, 1, e - 1)
             rest == IF e = 0 THEN <<>> ELSE SubSeq(toks, e + 1, Len(toks))
         IN  IF \E i \in 1..Len(line) : line[i] = BAD
             THEN [kind |-> "Error", row |-> <<>>, rest |-> rest]
             ELSE [kind |-> "row",
                   row  |-> IF line = <<>> THEN <<>>
                            ELSE Fields(line, 1, dialect.delimiter, 0, <<>>),
                   rest |-> rest]

----------------------------------------------------------------------------
(* check_dialect, csv.py lines 17-45 *)

None == -1

\* The for loop of check_dialect with `left` iterations to go. Returns
\* "True" or "False", or "Error" when next(row_gen) raises csv.Error (no
\* except clause catches it); rest is the content not yet consumed.
RECURSIVE check_loop(_, _, _, _)
check_loop(toks, dialect, left, prev_num_columns) ==
    IF left = 0 THEN [ret |-> "True", rest |-> toks]
    ELSE LET nx == NextRow(toks, dialect) IN
         IF nx.kind = "StopIteration" THEN [ret |-> "True", rest |-> toks]
         ELSE IF nx.kind = "Error" THEN [ret |-> "Error", rest |-> nx.rest]
         ELSE LET num_columns == Len(nx.row) IN
              IF prev_num_columns = None
              THEN check_loop(nx.rest, dialect, left - 1, num_columns)
              ELSE IF prev_num_columns # num_columns
                   THEN [ret |-> "False", rest |-> nx.rest]
                   ELSE check_loop(nx.rest, dialect, left - 1, prev_num_columns)

\* Mutant: one row too many is parsed.
check_dialect_one_more(content, p, dialect, ahead) ==
    LET r == check_loop(Drop(content, p), dialect, CHECK_ROWS + 1, None)
    IN  [ret |-> r.ret,
         pos |-> IF ahead THEN Size(content) ELSE Size(content) - Size(r.rest)]

\* check_dialect(file, dialect) with the stream at position p. The reader
\* iterates the file from p; `ahead` tells whether the stream's buffered
\* iteration has read ahead to the end of the file.
check_dialect(content, p, dialect, ahead) ==
    LET r == check_loop(Drop(content, p), dialect, CHECK_ROWS, None)
    IN  [ret |-> r.ret,
         pos |-> IF ahead THEN Size(content) ELSE Size(content) - Size(r.rest)]

----------------------------------------------------------------------------
(* get_sv_dialect, csv.py lines 48-71 *)

Op(op, at, dialect, ret) == [op |-> op, at |-> at, dialect |-> dialect, ret |-> ret]

Outcome(call, kind, dialect, ret, error) ==
    [call |-> call, kind |-> kind, dialect |-> dialect, ret |-> ret, error |-> error]

NotCalled == Outcome("none", "none", NoDialect, "", "")

\* Mutant: the None test left out.
DetectionNeverFails(dialect) == FALSE

\* `if dialect is None`, line 63
DetectionFailed(dialect) == dialect = NoDialect

\* get_sv_dialect(file) with the stream at position p, the detector inferring
\* `detected` from the sample.
get_sv_dialect(content, p, detected, ahead) ==
    LET p1 == FileRead(content, p, SAMPLE_SIZE)
        t1 == <<Op("read", p, NoDialect, ""), Op("detect", p1, detected, "")>>
    IN  IF DetectionFailed(detected)
        THEN [result |-> Outcome("get_sv_dialect", "raise", NoDialect, "", "InvalidTableError"),
              pos |-> p1, trace |-> t1]
        ELSE LET p2  == RewindBeforeCheck(p1)
                 t2  == Append(t1, Op("seek", p1, NoDialect, ""))
                 chk == check_dialect(content, p2, detected, ahead)
                 t3  == Append(t2, Op("check_dialect", p2, detected, chk.ret))
             IN  IF chk.ret = "True"
                 THEN [result |-> Outcome("get_sv_dialect", "return", detected, "", ""),
                       pos |-> RewindAfterCheck(chk.pos),
                       trace |-> Append(t3, Op("seek", chk.pos, NoDialect, ""))]
                 ELSE IF chk.ret = "False"
                 THEN [result |-> Outcome("get_sv_dialect", "raise", NoDialect, "", "InvalidTableError"),
                       pos |-> chk.pos, trace |-> t3]
                 ELSE [result |-> Outcome("get_sv_dialect", "raise", NoDialect, "", "Error"),
                       pos |-> chk.pos, trace |-> t3]

----------------------------------------------------------------------------
(* Calls on a freshly opened file *)

\* A caller runs get_sv_dialect on the freshly opened file.
GetSvDialect ==
    /\ result.call = "none"
    /\ \E detected \in DetectorOutcomes, ahead \in BOOLEAN :
         LET r == get_sv_dialect(file, pos, detected, ahead)
         IN  /\ result' = r.result
             /\ pos' = r.pos
             /\ trace' = r.trace
    /\ UNCHANGED <<file, pasteVars, updateVars>>

\* A caller runs check_dialect on the freshly opened file.
CheckDialect ==
    /\ result.call = "none"
    /\ \E dialect \in Dialects, ahead \in BOOLEAN :
         LET r == check_dialect(file, pos, dialect, ahead)
         IN  /\ result' = IF r.ret = "Error"
                          THEN Outcome("check_dialect", "raise", dialect, "", "Error")
                          ELSE Outcome("check_dialect", "return", dialect, r.ret, "")
             /\ pos' = r.pos
             /\ trace' = <<Op("check_dialect", pos, dialect, r.ret)>>
    /\ UNCHANGED <<file, pasteVars, updateVars>>

----------------------------------------------------------------------------
(* Properties of the dialect sniffer *)

\* The lines of a file, by position of their terminating newline.
RECURSIVE LinesOf(_)
LinesOf(toks) ==
    IF toks = <<>> THEN <<>>
    ELSE LET e == FirstNL(toks, 1)
         IN  IF e = 0 THEN <<toks>>
             ELSE <<SubSeq(toks, 1, e - 1)>> \o LinesOf(SubSeq(toks, e + 1, Len(toks)))

Malformed(line) == \E i \in 1..Len(line) : line[i] = BAD

\* Column count of a well-formed, non-empty line: one more than its delimiters.
ColumnCount(line, dialect) ==
    Cardinality({ i \in 1..Len(line) : line[i].c = dialect.delimiter }) + 1

\* The rows check_dialect is to look at.
FirstRows(toks) ==
    LET lines == LinesOf(toks)
    IN  SubSeq(lines, 1, Min(CHECK_ROWS, Len(lines)))

\* Every one of the first CHECK_ROWS rows parses and has the column count of
\* the first row.
RowsAgree(toks, dialect) ==
    LET rows == FirstRows(toks)
    IN  \A i \in 1..Len(rows) :
            /\ ~Malformed(rows[i])
            /\ ColumnCount(rows[i], dialect) = ColumnCount(rows[1], dialect)

\* The loop of check_dialect comes to a row the parser rejects: the first
\* such row is among the first CHECK_ROWS and the rows before it agree.
ReachesMalformed(toks, dialect) ==
    LET rows == FirstRows(toks)
    IN  \E j \in 1..Len(rows) :
            /\ Malformed(rows[j])
            /\ \A i \in 1..(j - 1) :
                  /\ ~Malformed(rows[i])
                  /\ ColumnCount(rows[i], dialect) = ColumnCount(rows[1], dialect)

\* C1: check_dialect returns true if and only if every one of the first
\* CHECK_ROWS rows of the file is parsed with the column count of the first
\* row; later rows have no say, and a file of fewer rows (or none) passes
\* when the rows it has agree.
C1_CheckDialectIffRowsAgree ==
    result.call = "check_dialect" =>
        /\ (result.kind = "return" /\ result.ret = "True")
              <=> RowsAgree(file, result.dialect)
        /\ (result.kind = "return" /\ result.ret = "False")
              <=> (~RowsAgree(file, result.dialect)
                     /\ ~ReachesMalformed(file, result.dialect))

\* C1 witness: a file of more than CHECK_ROWS rows of two columns whose row
\* CHECK_ROWS + 1 has three, accepted all the same.
C1_Witness ==
    /\ result.call = "check_dialect"
    /\ result.ret = "True"
    /\ Len(LinesOf(file)) > CHECK_ROWS
    /\ ~Malformed(LinesOf(file)[CHECK_ROWS + 1])
    /\ ColumnCount(LinesOf(file)[1], result.dialect) = 2
    /\ ColumnCount(LinesOf(file)[CHECK_ROWS + 1], result.dialect) = 3

\* C2: whenever get_sv_dialect returns a dialect the stream is at offset 0.
C2_ReturnLeavesStreamAtStart ==
    (result.call = "get_sv_dialect" /\ result.kind = "return") => pos = 0

\* C2 witness: a dialect returned for a file longer than SAMPLE_SIZE, after
\* the detection read and the validation both moved the stream.
C2_Witness ==
    /\ result.call = "get_sv_dialect"
    /\ result.kind = "return"
    /\ Size(file) > SAMPLE_SIZE
    /\ trace[2].at = SAMPLE_SIZE
    /\ trace[5].at > 0
    /\ trace[5].at < Size(file)

\* C3: get_sv_dialect detects, rewinds, validates, in this order; a dialect
\* it returns passes check_dialect on the file read from offset 0, and a
\* check_dialect that returns false makes the call fail with
\* InvalidTableError, no dialect returned.
C3_DetectRewindValidate ==
    result.call = "get_sv_dialect" =>
        /\ trace[1].op = "read" /\ trace[2].op = "detect"
        /\ \A i \in 1..Len(trace) : trace[i].op = "check_dialect" =>
              /\ i = 4
              /\ trace[3].op = "seek"
              /\ trace[i].at = 0
              /\ trace[i].dialect = trace[2].dialect
              /\ trace[i].ret = "False" =>
                    /\ result.kind = "raise"
                    /\ result.error = "InvalidTableError"
                    /\ result.dialect = NoDialect
        /\ result.kind = "return" =>
              /\ Len(trace) >= 4 /\ trace[4].op = "check_dialect"
              /\ result.dialect = trace[4].dialect
              /\ RowsAgree(file, result.dialect)

\* C3 witness: a file whose rows disagree within the first CHECK_ROWS rows,
\* read to its end by the detection read, and rejected.
C3_Witness ==
    /\ result.call = "get_sv_dialect"
    /\ result.error = "InvalidTableError"
    /\ Len(trace) = 4
    /\ trace[3].at = Size(file)
    /\ trace[4].ret = "False"

\* C4 as stated: a detector that infers no dialect makes the call fail with
\* DetectionError, a kind of its own.
C4_DetectionErrorIsDistinct ==
    (result.call = "get_sv_dialect" /\ trace[2].dialect = NoDialect) =>
        /\ result.kind = "raise"
        /\ result.error = "DetectionError"

\* C4 amended: a detector that infers no dialect makes the call fail with
\* InvalidTableError, the kind a failed validation raises too, and
\* check_dialect is never run.
C4_NoDialectRaisesInvalidTable ==
    (result.call = "get_sv_dialect" /\ trace[2].dialect = NoDialect) =>
        /\ result.kind = "raise"
        /\ result.error = "InvalidTableError"
        /\ \A i \in 1..Len(trace) : trace[i].op # "check_dialect"

\* C4 witness: the detector inferred nothing from a non-empty file.
C4_Witness ==
    /\ result.call = "get_sv_dialect"
    /\ trace[2].dialect = NoDialect
    /\ file # <<>>

\* C5: when the parser signals a malformed row among the first CHECK_ROWS
\* rows, check_dialect returns false and lets no error out.
C5_MalformedRowGivesFalse ==
    (result.call = "check_dialect" /\ ReachesMalformed(file, result.dialect)) =>
        (result.kind = "return" /\ result.ret = "False")

----------------------------------------------------------------------------
(* validate_paste, csv.py lines 114-131 *)

MaxPasteLen == 5

PasteChars == {"a", " ", "\t", "\r", "\n"}

\* The pastes of the documentation's examples.
PasteAligned ==
    <<"N", "a", "m", "e", " ", " ", "A", "g", "e", "\n", "A", "l", "i", "c", "e", " ", " ", "3", "0", "\n", "B", "o", "b", " ", " ", "4", "0", "\n">>
PasteAlignedNoEnd ==
    <<"N", "a", "m", "e", " ", " ", "A", "g", "e", "\n", "A", "l", "i", "c", "e", " ", " ", "3", "0", "\n", "B", "o", "b", " ", " ", "4", "0">>
PasteTabbed ==
    <<"N", "a", "m", "e", " ", " ", "A", "g", "e", "\n", "A", "l", "i", "c", "e", "\t", "3", "0", "\t", "5", "\n">>

RECURSIVE Strings(_)
Strings(n) ==
    IF n = 0 THEN {<<>>}
    ELSE LET shorter == Strings(n - 1)
         IN  shorter \cup { Append(s, c) : s \in {t \in shorter : Len(t) = n - 1},
                                            c \in PasteChars }

Pastes == Strings(MaxPasteLen) \cup {PasteAligned, PasteAlignedNoEnd, PasteTabbed}

\* Characters the regex class \s matches.
Whitespace == {" ", "\t", "\n", "\r", "\f"}

\* Mutant: raw_paste.splitlines(), which ends no line at the end of the text.
RECURSIVE str_splitlines(_, _, _, _)
str_splitlines(s, i, cur, acc) ==
    IF i > Len(s) THEN (IF cur = <<>> THEN acc ELSE Append(acc, cur))
    ELSE IF s[i] = "\n" THEN str_splitlines(s, i + 1, <<>>, Append(acc, cur))
    ELSE str_splitlines(s, i + 1, Append(cur, s[i]), acc)

\* raw_paste.split('\n')
RECURSIVE str_split(_, _, _, _)
str_split(s, i, cur, acc) ==
    IF i > Len(s) THEN Append(acc, cur)
    ELSE IF s[i] = "\n" THEN str_split(s, i + 1, <<>>, Append(acc, cur))
    ELSE str_split(s, i + 1, Append(cur, s[i]), acc)

\* Length of the longest match of \s+ at position i of s.
RECURSIVE WsRun(_, _)
WsRun(s, i) ==
    IF i > Len(s) \/ s[i] \notin Whitespace THEN 0
    ELSE 1 + WsRun(s, i + 1)

\* Mutant: the alternatives in the other order, \t|\s{2,}.
RECURSIVE re_split_tab_first(_, _, _, _, _)
re_split_tab_first(tab, s, i, cur, acc) ==
    IF i > Len(s) THEN Append(acc, cur)
    ELSE IF tab /\ s[i] = "\t"
         THEN re_split_tab_first(tab, s, i + 1, <<>>, Append(acc, cur))
    ELSE IF WsRun(s, i) >= 2
         THEN re_split_tab_first(tab, s, i + WsRun(s, i), <<>>, Append(acc, cur))
    ELSE re_split_tab_first(tab, s, i + 1, Append(cur, s[i]), acc)

\* re.split(pattern, s), scanning s from position i: pattern is \s{2,} when
\* tab is FALSE and \s{2,}|\t when tab is TRUE. At each position the first
\* alternative is tried first and is greedy.
RECURSIVE re_split(_, _, _, _, _)
re_split(tab, s, i, cur, acc) ==
    IF i > Len(s) THEN Append(acc, cur)
    ELSE IF WsRun(s, i) >= 2
         THEN re_split(tab, s, i + WsRun(s, i), <<>>, Append(acc, cur))
    ELSE IF tab /\ s[i] = "\t"
         THEN re_split(tab, s, i + 1, <<>>, Append(acc, cur))
    ELSE re_split(tab, s, i + 1, Append(cur, s[i]), acc)

PasteOutcome(kind, column_names, parsed_lines, error) ==
    [kind |-> kind, column_names |-> column_names,
     parsed_lines |-> parsed_lines, error |-> error]

PasteNotCalled == PasteOutcome("none", <<>>, <<>>, "")

\* The for loop of validate_paste over lines[i..].
RECURSIVE paste_loop(_, _, _, _)
paste_loop(lines, i, column_names, parsed_lines) ==
    IF i > Len(lines)
    THEN PasteOutcome("return", column_names, parsed_lines, "")
    ELSE LET parsed_line == re_split(TRUE, lines[i], 1, <<>>, <<>>)
         IN  IF Len(parsed_line) # Len(column_names)
             THEN PasteOutcome("raise", <<>>, <<>>, "InvalidPasteError")
             ELSE paste_loop(lines, i + 1, column_names,
                             Append(parsed_lines, parsed_line))

\* Mutant: the loop runs over lines[1:], the header line left unchecked.
validate_paste_skip_header(raw) ==
    LET lines == str_split(raw, 1, <<>>, <<>>)
    IN  IF Len(lines) = 0
        THEN PasteOutcome("raise", <<>>, <<>>, "InvalidPasteError")
        ELSE paste_loop(lines, 2, re_split(FALSE, lines[1], 1, <<>>, <<>>), <<>>)

validate_paste(raw) ==
    LET lines == str_split(raw, 1, <<>>, <<>>)
    IN  IF Len(lines) = 0
        THEN PasteOutcome("raise", <<>>, <<>>, "InvalidPasteError")
        ELSE paste_loop(lines, 1, re_split(FALSE, lines[1], 1, <<>>, <<>>), <<>>)

ValidatePaste ==
    /\ paste_result.kind = "none"
    /\ paste_result' = validate_paste(raw_paste)
    /\ UNCHANGED <<raw_paste, sniffVars, updateVars>>

----------------------------------------------------------------------------
(* update_sa_table, models.py lines 13-20 *)

\* Keys a request may carry, and the sets db.tables may declare supported.
UpdateArgs == {"name", "sa_columns", "schema", "oid"}

Message(arg) == <<"Updating ", arg, " for tables is not supported.">>

UpdateOutcome(kind, errors, updated) ==
    [kind |-> kind, errors |-> errors, updated |-> updated]

UpdateNotCalled == UpdateOutcome("none", {}, {})

\* Mutant: the update is made before the unsupported keys are reported.
update_sa_table_update_first(data, SUPPORTED_TABLE_UPDATE_ARGS) ==
    LET errors == { <<arg, Message(arg)>> : arg \in data \ SUPPORTED_TABLE_UPDATE_ARGS }
    IN  IF errors # {}
        THEN UpdateOutcome("raise", errors, {data})
        ELSE UpdateOutcome("return", {}, {data})

\* errors is the dict {arg: message} as a set of pairs; updated is the
\* validated_data handed to update_table, empty when it is not called.
update_sa_table(data, SUPPORTED_TABLE_UPDATE_ARGS) ==
    LET errors == { <<arg, Message(arg)>> : arg \in data \ SUPPORTED_TABLE_UPDATE_ARGS }
    IN  IF errors # {}
        THEN UpdateOutcome("raise", errors, {})
        ELSE UpdateOutcome("return", {}, {data})

UpdateSaTable ==
    /\ update_result.kind = "none"
    /\ update_result' = update_sa_table(validated_data, supported)
    /\ UNCHANGED <<validated_data, supported, sniffVars, pasteVars>>

----------------------------------------------------------------------------
(* Properties of validate_paste *)

Newlines(raw) == { i \in 1..Len(raw) : raw[i] = "\n" }

NumLines(raw) == Cardinality(Newlines(raw)) + 1

\* Position of the k-th newline of raw; 0 for k = 0, Len(raw) + 1 past the last.
NthNewline(raw, k) ==
    IF k = 0 THEN 0
    ELSE IF k > Cardinality(Newlines(raw)) THEN Len(raw) + 1
    ELSE CHOOSE p \in Newlines(raw) :
            Cardinality({ q \in Newlines(raw) : q <= p }) = k

\* The k-th newline-separated line of raw.
LineOf(raw, k) == SubSeq(raw, NthNewline(raw, k - 1) + 1, NthNewline(raw, k) - 1)

\* Positions where a column separator starts: a run of two or more
\* whitespace characters, or (when tab counts) a tab standing alone.
SeparatorStarts(line, tab) ==
    { i \in 1..Len(line) :
        /\ line[i] \in Whitespace
        /\ (i = 1 \/ line[i - 1] \notin Whitespace)
        /\ \/ (i < Len(line) /\ line[i + 1] \in Whitespace)
           \/ (tab /\ line[i] = "\t") }

FieldCount(line, tab) == Cardinality(SeparatorStarts(line, tab)) + 1

SomeLineMismatches(raw) ==
    \E k \in 1..NumLines(raw) :
        FieldCount(LineOf(raw, k), TRUE) # FieldCount(LineOf(raw, 1), FALSE)

\* C6: validate_paste fails with the column-count error if and only if some
\* line, the first included, split on runs of two or more whitespace
\* characters or on a single tab, has another number of fields than the
\* first line split on runs of two or more whitespace characters; otherwise
\* it returns. A single space is no separator.
C6_RaisesIffSomeLineMismatches ==
    paste_result.kind # "none" =>
        /\ (paste_result.kind = "raise" /\ paste_result.error = "InvalidPasteError")
              <=> SomeLineMismatches(raw_paste)
        /\ paste_result.kind = "return" <=> ~SomeLineMismatches(raw_paste)

\* C6 witness: the mismatching paste of the documentation is rejected.
C6_Witness ==
    /\ raw_paste = PasteTabbed
    /\ paste_result.kind = "raise"

\* C7: the aligned two-column paste ending with a newline is accepted, with
\* columns Name, Age and the rows Alice 30 and Bob 40: no row for the
\* trailing newline, no row for the header.
C7_AlignedPasteAccepted ==
    (raw_paste = PasteAligned /\ paste_result.kind # "none") =>
        /\ paste_result.kind = "return"
        /\ paste_result.column_names = << <<"N", "a", "m", "e">>, <<"A", "g", "e">> >>
        /\ paste_result.parsed_lines =
              << << <<"A", "l", "i", "c", "e">>, <<"3", "0">> >>, << <<"B", "o", "b">>, <<"4", "0">> >> >>

\* C8: the empty string is accepted: one line, the empty one, one column
\* named by the empty string; and no paste splits into zero lines, so a
\* paste is rejected for a mismatching line only.
C8_EmptyPasteAccepted ==
    paste_result.kind # "none" =>
        /\ Len(str_split(raw_paste, 1, <<>>, <<>>)) = NumLines(raw_paste)
        /\ paste_result.kind = "raise" => SomeLineMismatches(raw_paste)
        /\ raw_paste = <<>> =>
              /\ str_split(raw_paste, 1, <<>>, <<>>) = << <<>> >>
              /\ paste_result.kind = "return"
              /\ paste_result.column_names = << <<>> >>

\* C8 witness: validate_paste has run on the empty string.
C8_Witness ==
    /\ raw_paste = <<>>
    /\ paste_result.kind = "return"
    /\ paste_result.parsed_lines = << << <<>> >> >>

\* C9: when validate_paste returns, parsed_lines has one entry per line of
\* the input, in line order, each of len(column_names) fields, and the
\* first entry is column_names.
C9_ReturnedLinesMatchColumns ==
    paste_result.kind = "return" =>
        /\ Len(paste_result.parsed_lines) = NumLines(raw_paste)
        /\ \A k \in 1..Len(paste_result.parsed_lines) :
              /\ paste_result.parsed_lines[k]
                   = re_split(TRUE, LineOf(raw_paste, k), 1, <<>>, <<>>)
              /\ Len(paste_result.parsed_lines[k]) = Len(paste_result.column_names)
        /\ paste_result.parsed_lines[1] = paste_result.column_names

\* C9 witness: a paste of several lines and several columns is returned,
\* some column boundary holding a tab.
C9_Witness ==
    /\ paste_result.kind = "return"
    /\ Len(paste_result.parsed_lines) >= 2
    /\ Len(paste_result.column_names) >= 2
    /\ \E i \in 1..Len(raw_paste) : raw_paste[i] = "\t"

----------------------------------------------------------------------------
(* Properties of update_sa_table *)

Unsupported == validated_data \ supported

\* C10: update_table is called if and only if every key of validated_data
\* is supported; otherwise ValidationError carries one message for each
\* unsupported key, none for a supported one, and nothing is updated.
C10_UpdateIffAllSupported ==
    update_result.kind # "none" =>
        /\ update_result.updated # {} <=> validated_data \subseteq supported
        /\ update_result.updated # {} =>
              /\ update_result.kind = "return"
              /\ update_result.updated = {validated_data}
        /\ Unsupported # {} =>
              /\ update_result.kind = "raise"
              /\ update_result.updated = {}
              /\ { e[1] : e \in update_result.errors } = Unsupported
              /\ Cardinality(update_result.errors) = Cardinality(Unsupported)
              /\ \A e \in update_result.errors : e[2] = Message(e[1])

\* C10 witness: a request with supported and unsupported keys is refused.
C10_Witness ==
    /\ update_result.kind = "raise"
    /\ validated_data \cap supported # {}
    /\ Unsupported # {}

----------------------------------------------------------------------------
(* Specifications *)

\* A file is opened; the other components stay idle.
InitSniff ==
    /\ file \in Files
    /\ pos = 0
    /\ result = NotCalled
    /\ trace = <<>>
    /\ raw_paste = <<>> /\ paste_result = PasteNotCalled
    /\ validated_data = {} /\ supported = {} /\ update_result = UpdateNotCalled

\* A paste is submitted.
InitPaste ==
    /\ raw_paste \in Pastes
    /\ paste_result = PasteNotCalled
    /\ file = <<>> /\ pos = 0 /\ result = NotCalled /\ trace = <<>>
    /\ validated_data = {} /\ supported = {} /\ update_result = UpdateNotCalled

\* A table update is requested.
InitUpdate ==
    /\ validated_data \in SUBSET UpdateArgs
    /\ supported \in SUBSET UpdateArgs
    /\ update_result = UpdateNotCalled
    /\ file = <<>> /\ pos = 0 /\ result = NotCalled /\ trace = <<>>
    /\ raw_paste = <<>> /\ paste_result = PasteNotCalled

NextSniff  == GetSvDialect \/ CheckDialect
NextPaste  == ValidatePaste
NextUpdate == UpdateSaTable

SpecSniff  == InitSniff /\ [][NextSniff]_vars
SpecPaste  == InitPaste /\ [][NextPaste]_vars
SpecUpdate == InitUpdate /\ [][NextUpdate]_vars

Init == InitSniff \/ InitPaste \/ InitUpdate

Next == NextSniff \/ NextPaste \/ NextUpdate

Spec == Init /\ [][Next]_vars

====
